---- MODULE Spec2Model ----
(***************************************************************************)
(* Model of chicago-restaurant-openings-bot: the watermark store           *)
(* (utils/time_utils.py), the fetch (services/chicago_data_service.py),    *)
(* the publisher (services/bluesky_service.py), the filter                 *)
(* (models/restaurant.py) and the cycle and scheduler loop (bot.py).       *)
(*                                                                         *)
(* Time is one wall clock `now`, counted in abstract ticks; a calendar day *)
(* is DayLen ticks.  datetime.now() and time.time() both read `now`.       *)
(***************************************************************************)
EXTENDS Integers, Sequences, FiniteSets, TLC

\* ---------------------------------------------------------------- bounds
DayLen == 2            \* ticks per calendar day
StartTime == 4         \* the clock at process start
MaxTime == 7           \* the clock stops here
NRec == 2              \* records the source may come to hold
MaxRetriesCfg == 1     \* largest configured max_retries
MaxMinDelay == 2       \* largest configured min_delay_between_posts
MaxRetryDelay == 2     \* largest configured retry_delay
CheckInterval == 1     \* check_interval_minutes * 60, in ticks
MaxRestarts == 1       \* process restarts in one behaviour

\* ------------------------------------------------------ program constants
Limit == 10            \* "$limit": "10"
RecoverySleep == 1     \* time.sleep(300), in ticks

Ids == 1..NRec
None == "None"
\* The ward of each row the source may come to hold: the ward of the sample
\* restaurant (test_post.py:20), and another one for the last row.
WardOf(i) == IF i < NRec THEN "42" ELSE "1"
SampleLicense == "RETAIL FOOD ESTABLISHMENT"
SampleZip == "60601"

\* ------------------------------------------------------- watermark store
\* datetime.isoformat(): the text is a date part followed by a time-of-day
\* part; the file holds the sequence of the parts written so far.
isoformat(t) == << t \div DayLen, t % DayLen >>

\* A parser that reads the date part only.
fromisoformat_dateonly(s) ==
    IF Len(s) = 2 THEN s[1] * DayLen
    ELSE IF Len(s) = 1 THEN s[1] * DayLen
    ELSE -1

\* datetime.fromisoformat(): a full text gives the timestamp back, a text
\* holding only the date part is accepted as midnight of that day, anything
\* else raises (-1).
fromisoformat(s) ==
    IF Len(s) = 2 THEN s[1] * DayLen + s[2]
    ELSE IF Len(s) = 1 THEN s[1] * DayLen
    ELSE -1

\* since.strftime('%Y-%m-%d'): the timestamp cut to the start of its day.
strftime_date(t) == t - (t % DayLen)

\* A load without the fallback: the parse error (-1) leaves the method.
load_timestamp_strict(f, clock) == fromisoformat(f)

\* TimestampManager.load_timestamp: the stored value, or the current time
\* when the file cannot be read or parsed.
load_timestamp(f, clock) ==
    IF fromisoformat(f) = -1 THEN clock ELSE fromisoformat(f)

\* ----------------------------------------------------------------- filter
\* dict.get(key, default)
get(d, key, default) == IF key \in DOMAIN d THEN d[key] ELSE default

\* A filter that lets a record without a ward through the ward allowlist.
passes_filters_lenient(r, filters) ==
    LET excluded_types == get(filters, "excluded_license_types", {})
        included_wards == get(filters, "included_wards", {})
        included_zips  == get(filters, "included_zip_codes", {})
    IN  IF excluded_types # {} /\ r.license_description \in excluded_types
          THEN FALSE
        ELSE IF included_wards # {} /\ r.ward # None /\ r.ward \notin included_wards
          THEN FALSE
        ELSE IF included_zips # {} /\ r.zip_code \notin included_zips
          THEN FALSE
        ELSE TRUE

\* Restaurant.passes_filters: the three checks in the order of the code; a
\* rule set is a list, read here as the set of its elements, and an empty
\* list is falsy.
passes_filters(r, filters) ==
    LET excluded_types == get(filters, "excluded_license_types", {})
        included_wards == get(filters, "included_wards", {})
        included_zips  == get(filters, "included_zip_codes", {})
    IN  IF excluded_types # {} /\ r.license_description \in excluded_types
          THEN FALSE
        ELSE IF included_wards # {} /\ r.ward \notin included_wards
          THEN FALSE
        ELSE IF included_zips # {} /\ r.zip_code \notin included_zips
          THEN FALSE
        ELSE TRUE

NoFilters ==
    [excluded_license_types |-> {}, included_wards |-> {}, included_zip_codes |-> {}]
WardFilter ==
    [excluded_license_types |-> {}, included_wards |-> {"42"}, included_zip_codes |-> {}]

\* The Restaurant built from a row of the source (get_new_restaurants).
Restaurant(row) ==
    [license_description |-> SampleLicense,
     zip_code            |-> row.zip_code,
     ward                |-> row.ward,
     application_date    |-> row.issued]

\* ------------------------------------------------------------------ fetch
Absent == [issued |-> -1, ward |-> None, zip_code |-> None]

\* Rows matching the $where clause: application_created_date later than the
\* start of the day of `since`.
Matching(src, since) ==
    { i \in Ids : src[i] # Absent /\ src[i].issued > strftime_date(since) }

\* The orders the portal may return the rows in: "$order":
\* "application_created_date DESC"; rows of equal date in either order.
RECURSIVE Orders(_, _)
Orders(src, S) ==
    IF S = {} THEN { <<>> }
    ELSE UNION { { <<i>> \o rest : rest \in Orders(src, S \ {i}) } :
                 i \in { j \in S : \A k \in S : src[j].issued >= src[k].issued } }

\* "$limit": the first Limit rows of the ordered result.
Take(s, n) == IF Len(s) <= n THEN s ELSE SubSeq(s, 1, n)

VARIABLES
    now,             \* wall clock
    file,            \* content of the timestamp file
    source,          \* rows of the data portal, by id
    cfg,             \* configuration, fixed at startup
    pc,              \* position of run() / process_new_restaurants()
    last_check,      \* process_new_restaurants: last_check
    batch,           \* process_new_restaurants: restaurants (ids, in order)
    idx,             \* position of the for loop in batch
    successful_posts,
    processed,       \* run(): value returned by the last cycle
    metrics,         \* increments of the Prometheus counters in this cycle
    pubPc,           \* position inside post_restaurant
    retries,         \* post_restaurant: retries
    last_post_time,  \* BlueskyService.last_post_time
    hist,            \* history of the run, read by the properties only
    probe            \* the call under examination, in the specifications of
                     \* single operations: its inputs and what it returned

vars == << now, file, source, cfg, pc, last_check, batch, idx, successful_posts,
           processed, metrics, pubPc, retries, last_post_time, hist, probe >>

\* The pipeline's specifications examine no single call.
NoProbe == [op |-> "none"]

\* ---------------------------------------------------------- configuration
Configs ==
    [auto_retry         : BOOLEAN,
     max_retries        : 0..MaxRetriesCfg,
     throttling_enabled : BOOLEAN,
     min_delay          : 1..MaxMinDelay,
     retry_delay        : 1..MaxRetryDelay,
     filters            : {NoFilters, WardFilter},
     metrics_enabled    : BOOLEAN,
     check_interval     : {CheckInterval, 0, -CheckInterval}]

NoMetrics == [restaurants_found |-> 0, posts_succeeded |-> 0, posts_failed |-> 0]

\* What a new BlueskyService has seen: no push yet.
NoPushes == [lastPushAt |-> -1, lastOkAt |-> -1]

\* What a call of post_restaurant has done so far.
NoCall == [pushes |-> 0, okPushes |-> 0, retrySleeps |-> 0, retrySlept |-> 0,
           rateSlept |-> 0, filtered |-> FALSE, result |-> "none"]

\* What a cycle has done so far.  hist.done holds the records published by
\* the cycles that ran to their end and wrote the watermark; a cycle cut
\* short by a restart, or one whose write failed, adds none.
NoCycle(f) == [fileAtLoad |-> f, fetchOutcome |-> "none", attempted |-> {},
               nFiltered |-> 0, nExhausted |-> 0, published |-> {}, saved |-> "none"]

HistInit(f) ==
    [cycle    |-> NoCycle(f),
     call     |-> NoCall,
     push     |-> NoPushes,
     done     |-> {},
     handed   |-> [i \in Ids |-> FALSE],
     due      |-> [i \in Ids |-> FALSE],
     restarts |-> 0]

\* The configurations of the pipeline's specification: the publisher's
\* settings are fixed and the metrics are on, the filters vary.
PipelineConfigs ==
    { c \in Configs : /\ c.auto_retry /\ c.max_retries = 1 /\ c.retry_delay = 1
                      /\ c.throttling_enabled /\ c.min_delay = 1
                      /\ c.metrics_enabled
                      /\ c.check_interval = CheckInterval }

\* The configurations of the publisher's specification: every setting of
\* retry, throttling and metrics, no filter.
PublisherConfigs ==
    { c \in Configs : c.filters = NoFilters /\ c.check_interval = CheckInterval }

\* The state after ChicagoRestaurantBot.__init__ (bot.py:22-50,
\* bluesky_service.py:12-36, time_utils.py:9-21).
Started(files, src, cfgs) ==
    /\ now = StartTime
    /\ file \in files
    /\ source = src
    /\ cfg \in cfgs
    /\ pc = "load"
    /\ last_check = 0
    /\ batch = <<>>
    /\ idx = 0
    /\ successful_posts = 0
    /\ processed = 0
    /\ metrics = NoMetrics
    /\ pubPc = "idle"
    /\ retries = 0
    /\ last_post_time = 0
    /\ hist = [HistInit(file) EXCEPT
                 !.due = [i \in Ids |-> src[i] # Absent /\ fromisoformat(file) # -1
                                           /\ src[i].issued > fromisoformat(file)]]

\* The timestamp file holds the current time (created by
\* TimestampManager.__init__), a value left by an earlier run, or nothing
\* readable; the source holds no new row yet.
Init ==
    Started({ isoformat(t) : t \in (StartTime - DayLen)..StartTime } \cup { <<>> },
            [i \in Ids |-> Absent], PipelineConfigs)
    /\ probe = NoProbe

\* The timestamp file holds a value left by an earlier run and the source
\* holds NRec rows issued since.
InitPub ==
    Started({ isoformat(StartTime - 1) },
            [i \in Ids |-> [issued |-> StartTime, ward |-> WardOf(i),
                            zip_code |-> SampleZip]],
            PublisherConfigs)
    /\ probe = NoProbe

\* ------------------------------------------------------------ environment
\* Time passes.
Tick ==
    /\ now < MaxTime
    /\ now' = now + 1
    /\ UNCHANGED << probe, file, source, cfg, pc, last_check, batch, idx, successful_posts,
                    processed, metrics, pubPc, retries, last_post_time, hist >>

\* A license is issued and shows up at the portal.  It is due for an
\* announcement when it was issued after the stored watermark.
Appear(i) ==
    /\ source[i] = Absent
    /\ source' = [source EXCEPT ![i] = [issued |-> now, ward |-> WardOf(i),
                                        zip_code |-> SampleZip]]
    /\ hist' = [hist EXCEPT !.due[i] =
                    fromisoformat(file) # -1 /\ now > fromisoformat(file)]
    /\ UNCHANGED << probe, now, file, cfg, pc, last_check, batch, idx, successful_posts,
                    processed, metrics, pubPc, retries, last_post_time >>

\* --------------------------------------------- process_new_restaurants
\* bot.py:88  last_check = self.timestamp_mgr.load_timestamp()
LoadTimestamp ==
    /\ pc = "load"
    /\ last_check' = load_timestamp(file, now)
    /\ pc' = "fetch"
    /\ batch' = <<>>
    /\ idx' = 0
    /\ successful_posts' = 0
    /\ metrics' = NoMetrics
    /\ hist' = [hist EXCEPT
                  !.cycle = NoCycle(file),
                  !.call = NoCall,
                  !.done = IF hist.cycle.saved = "written"
                             THEN @ \cup hist.cycle.published ELSE @,
                  !.due = IF fromisoformat(file) = -1
                            THEN [i \in Ids |-> FALSE] ELSE @]
    /\ UNCHANGED << probe, now, file, source, cfg, processed, pubPc, retries, last_post_time >>

\* bot.py:97-101 after get_new_restaurants returned `rows`.
Fetched(rows, outcome) ==
    /\ batch' = rows
    /\ idx' = 1
    /\ successful_posts' = 0
    /\ metrics' = IF cfg.metrics_enabled
                    THEN [metrics EXCEPT !.restaurants_found = @ + Len(rows)]
                    ELSE metrics
    /\ pc' = "post"
    /\ hist' = [hist EXCEPT !.cycle.fetchOutcome = outcome]
    /\ UNCHANGED << probe, now, file, source, cfg, last_check, processed, pubPc, retries,
                    last_post_time >>

\* chicago_data_service.py:45-74  the request succeeds and its rows parse.
FetchOk ==
    /\ pc = "fetch"
    /\ \E order \in Orders(source, Matching(source, last_check)) :
          Fetched(Take(order, Limit), "ok")

\* chicago_data_service.py:75-79  a RequestException (network error, HTTP
\* error status) is logged and an empty list is returned.
FetchRequestError ==
    /\ pc = "fetch"
    /\ Fetched(<<>>, "request_error")

\* An error that is not a RequestException (a body or a date that does not
\* parse) leaves get_new_restaurants and is caught at bot.py:121-125.
FetchRaise ==
    /\ pc = "fetch"
    /\ metrics' = IF cfg.metrics_enabled
                    THEN [metrics EXCEPT !.posts_failed = @ + 1]
                    ELSE metrics
    /\ processed' = 0
    /\ pc' = "sleep"
    /\ hist' = [hist EXCEPT !.cycle.fetchOutcome = "raised"]
    /\ UNCHANGED << probe, now, file, source, cfg, last_check, batch, idx, successful_posts,
                    pubPc, retries, last_post_time >>


\* ---------------------------------------------------------- post_restaurant
\* A loop that counts the published records only.
Returned_uncounted(ok, h) ==
    /\ successful_posts' = IF ok THEN successful_posts + 1 ELSE successful_posts
    /\ metrics' = IF cfg.metrics_enabled /\ ok
                    THEN [metrics EXCEPT !.posts_succeeded = @ + 1]
                    ELSE metrics
    /\ idx' = idx + 1
    /\ pubPc' = "idle"
    /\ hist' = [h EXCEPT !.call.result = IF ok THEN "True" ELSE "False",
                         !.cycle.attempted = @ \cup {idx}]

\* bot.py:103-108  post_restaurant returned `ok` for restaurants[idx].
Returned(ok, h) ==
    /\ successful_posts' = IF ok THEN successful_posts + 1 ELSE successful_posts
    /\ metrics' = IF ~cfg.metrics_enabled THEN metrics
                  ELSE IF ok THEN [metrics EXCEPT !.posts_succeeded = @ + 1]
                  ELSE [metrics EXCEPT !.posts_failed = @ + 1]
    /\ idx' = idx + 1
    /\ pubPc' = "idle"
    /\ hist' = [h EXCEPT !.call.result = IF ok THEN "True" ELSE "False",
                         !.cycle.attempted = @ \cup {idx}]

\* A post_restaurant without its filter check: every record enters the loop.
PostFilter_unfiltered ==
    /\ pc = "post" /\ pubPc = "idle" /\ idx <= Len(batch)
    /\ retries' = 0
    /\ pubPc' = "while"
    /\ hist' = [hist EXCEPT !.call = NoCall]
    /\ UNCHANGED << probe, now, file, source, cfg, pc, last_check, batch, processed,
                    last_post_time, successful_posts, metrics, idx >>

\* A post_restaurant that raises on a record without a ward; the error is
\* caught at bot.py:121-125 and ends the cycle.
PostFilter_abort ==
    /\ pc = "post" /\ pubPc = "idle" /\ idx <= Len(batch)
    /\ IF source[batch[idx]].ward = None
         THEN /\ pc' = "sleep"
              /\ processed' = 0
              /\ UNCHANGED << retries, pubPc, hist, successful_posts, metrics, idx >>
         ELSE /\ retries' = 0
              /\ pubPc' = "while"
              /\ hist' = [hist EXCEPT !.call = NoCall]
              /\ UNCHANGED << pc, processed, successful_posts, metrics, idx >>
    /\ UNCHANGED << probe, now, file, source, cfg, last_check, batch, last_post_time >>

\* bluesky_service.py:72-79  the filter check at the head of post_restaurant.
PostFilter ==
    /\ pc = "post" /\ pubPc = "idle" /\ idx <= Len(batch)
    /\ IF ~passes_filters(Restaurant(source[batch[idx]]), cfg.filters)
         THEN /\ Returned(FALSE, [hist EXCEPT !.call = [NoCall EXCEPT !.filtered = TRUE],
                                              !.cycle.nFiltered = @ + 1])
              /\ UNCHANGED retries
         ELSE /\ retries' = 0
              /\ pubPc' = "while"
              /\ hist' = [hist EXCEPT !.call = NoCall]
              /\ UNCHANGED << successful_posts, metrics, idx >>
    /\ UNCHANGED << probe, now, file, source, cfg, pc, last_check, batch, processed,
                    last_post_time >>

\* A rate limit that never sleeps.
enforce_rate_limit_off(clock) == clock

\* bluesky_service.py:53-60  _enforce_rate_limit: the time after the sleep.
enforce_rate_limit(clock) ==
    IF cfg.throttling_enabled /\ clock - last_post_time < cfg.min_delay
      THEN clock + (cfg.min_delay - (clock - last_post_time))
      ELSE clock

\* bluesky_service.py:80-83  the loop test, then _enforce_rate_limit.
WhileRetries ==
    /\ pc = "post" /\ pubPc = "while"
    /\ IF retries <= cfg.max_retries
         THEN /\ enforce_rate_limit(now) <= MaxTime
              /\ now' = enforce_rate_limit(now)
              /\ pubPc' = "send"
              /\ hist' = [hist EXCEPT !.call.rateSlept = @ + (now' - now)]
              /\ UNCHANGED << successful_posts, metrics, idx >>
         ELSE /\ Returned(FALSE, [hist EXCEPT !.cycle.nExhausted = @ + 1])
              /\ UNCHANGED now
    /\ UNCHANGED << probe, file, source, cfg, pc, last_check, batch, processed, retries,
                    last_post_time >>

\* The external push call is made at `now`, for record i.
Pushed(i, ok) ==
    [hist EXCEPT
       !.call.pushes = @ + 1,
       !.call.okPushes = IF ok THEN @ + 1 ELSE @,
       !.handed[i] = TRUE,
       !.cycle.published = IF ok THEN @ \cup {i} ELSE @,
       !.push = [lastPushAt |-> now,
                 lastOkAt   |-> IF ok THEN now ELSE @.lastOkAt]]

\* bluesky_service.py:85-87  format_announcement and send_post, which succeeds.
SendPostOk ==
    /\ pc = "post" /\ pubPc = "send"
    /\ pubPc' = "sent"
    /\ hist' = Pushed(batch[idx], TRUE)
    /\ UNCHANGED << probe, now, file, source, cfg, pc, last_check, batch, idx,
                    successful_posts, processed, metrics, retries, last_post_time >>

\* A publisher that also writes the watermark after each successful post.
StampAndReturn_checkpoint ==
    /\ pc = "post" /\ pubPc = "sent"
    /\ last_post_time' = now
    /\ file' = isoformat(now)
    /\ Returned(TRUE, hist)
    /\ UNCHANGED << probe, now, source, cfg, pc, last_check, batch, processed, retries >>

\* bluesky_service.py:89-95  after a successful send_post.
StampAndReturn ==
    /\ pc = "post" /\ pubPc = "sent"
    /\ last_post_time' = now
    /\ Returned(TRUE, hist)
    /\ UNCHANGED << probe, now, file, source, cfg, pc, last_check, batch, processed, retries >>

\* A retry decision that stops one attempt short of the budget.
should_retry_short(r) == cfg.auto_retry /\ r < cfg.max_retries

\* A retry decision that does not look at auto_retry.
should_retry_always(r) == r <= cfg.max_retries

\* bluesky_service.py:104  if self.auto_retry and retries <= self.max_retries
should_retry(r) == cfg.auto_retry /\ r <= cfg.max_retries

\* bluesky_service.py:97-110  send_post raises: count the retry, then sleep
\* retry_delay and loop, or break and return False.
SendPostFails ==
    /\ pc = "post" /\ pubPc = "send"
    /\ retries' = retries + 1
    /\ IF should_retry(retries')
         THEN /\ now + cfg.retry_delay <= MaxTime
              /\ now' = now + cfg.retry_delay
              /\ pubPc' = "while"
              /\ hist' = [Pushed(batch[idx], FALSE) EXCEPT
                            !.call.retrySleeps = @ + 1,
                            !.call.retrySlept = @ + cfg.retry_delay]
              /\ UNCHANGED << successful_posts, metrics, idx >>
         ELSE /\ Returned(FALSE, [Pushed(batch[idx], FALSE) EXCEPT
                                    !.cycle.nExhausted = @ + 1])
              /\ UNCHANGED now
    /\ UNCHANGED << probe, file, source, cfg, pc, last_check, batch, processed,
                    last_post_time >>

\* A loop that may be left before the last restaurant.
LoopDone_early ==
    /\ pc = "post" /\ pubPc = "idle"
    /\ pc' = "save"
    /\ UNCHANGED << probe, now, file, source, cfg, last_check, batch, idx, successful_posts,
                    processed, metrics, pubPc, retries, last_post_time, hist >>

\* bot.py:102  the for loop is over.
LoopDone ==
    /\ pc = "post" /\ pubPc = "idle" /\ idx > Len(batch)
    /\ pc' = "save"
    /\ UNCHANGED << probe, now, file, source, cfg, last_check, batch, idx, successful_posts,
                    processed, metrics, pubPc, retries, last_post_time, hist >>

\* ------------------------------------------------------------------- save
\* A save that writes the date of the timestamp only.
save_timestamp_date(f, t, outcome) ==
    IF outcome = "written" THEN isoformat(strftime_date(t))
    ELSE IF outcome = "open_failed" THEN f
    ELSE <<>>

\* time_utils.py:39-50  what save_timestamp(t) leaves in the file: the text
\* written, the old content when open() fails, nothing when the file was
\* opened (and so truncated) and the write fails.
save_timestamp(f, t, outcome) ==
    IF outcome = "written" THEN isoformat(t)
    ELSE IF outcome = "open_failed" THEN f
    ELSE <<>>

\* bot.py:111-119  save_timestamp(datetime.now()), then return successful_posts.
SaveTimestamp(outcome) ==
    /\ pc = "save"
    /\ file' = save_timestamp(file, now, outcome)
    /\ processed' = successful_posts
    /\ pc' = "sleep"
    /\ hist' = [hist EXCEPT !.cycle.saved = outcome]
    /\ UNCHANGED << probe, now, source, cfg, last_check, batch, idx, successful_posts,
                    metrics, pubPc, retries, last_post_time >>

\* -------------------------------------------------------------------- run
\* bot.py:145-151  log the count, sleep check_interval_minutes, loop.
RunSleep ==
    /\ pc = "sleep"
    /\ cfg.check_interval >= 0
    /\ now + cfg.check_interval <= MaxTime
    /\ now' = now + cfg.check_interval
    /\ pc' = "load"
    /\ UNCHANGED << probe, file, source, cfg, last_check, batch, idx, successful_posts,
                    processed, metrics, pubPc, retries, last_post_time, hist >>

\* bot.py:151-154  time.sleep() raises ValueError for a negative length (a
\* negative CHECK_INTERVAL_MINUTES): the one error that leaves the try block
\* of run(), process_new_restaurants catching every Exception of its own.
RunSleepRaises ==
    /\ pc = "sleep"
    /\ cfg.check_interval < 0
    /\ pc' = "recover"
    /\ UNCHANGED << probe, now, file, source, cfg, last_check, batch, idx,
                    successful_posts, processed, metrics, pubPc, retries,
                    last_post_time, hist >>

\* A loop that is left when the error reaches it.
RunRecover_exit ==
    /\ pc = "recover"
    /\ pc' = "exited"
    /\ probe' = [probe EXCEPT !.recovered = TRUE]
    /\ UNCHANGED << now, file, source, cfg, last_check, batch, idx, successful_posts,
                    processed, metrics, pubPc, retries, last_post_time, hist >>

\* bot.py:153-156  the handler of run(): log, time.sleep(300), loop.
RunRecover ==
    /\ pc = "recover"
    /\ now + RecoverySleep <= MaxTime
    /\ now' = now + RecoverySleep
    /\ pc' = "load"
    /\ probe' = [probe EXCEPT !.recovered = TRUE]
    /\ UNCHANGED << file, source, cfg, last_check, batch, idx, successful_posts,
                    processed, metrics, pubPc, retries, last_post_time, hist >>

\* The process is stopped and started again: bot.py:22-50 builds a new
\* BlueskyService (last_post_time = 0); the timestamp file exists and is kept.
Restart ==
    /\ hist.restarts < MaxRestarts
    /\ pc' = "load"
    /\ pubPc' = "idle"
    /\ retries' = 0
    /\ last_post_time' = 0
    /\ last_check' = 0
    /\ batch' = <<>>
    /\ idx' = 0
    /\ successful_posts' = 0
    /\ processed' = 0
    /\ metrics' = NoMetrics
    /\ hist' = [hist EXCEPT !.restarts = @ + 1, !.push = NoPushes,
                            !.call = NoCall, !.cycle = NoCycle(file),
                            !.done = IF hist.cycle.saved = "written"
                                       THEN @ \cup hist.cycle.published ELSE @]
    /\ UNCHANGED << probe, now, file, source, cfg >>

Next ==
    \/ Tick
    \/ \E i \in Ids : Appear(i)
    \/ LoadTimestamp
    \/ FetchOk
    \/ FetchRequestError
    \/ FetchRaise
    \/ PostFilter
    \/ WhileRetries
    \/ SendPostOk
    \/ SendPostFails
    \/ StampAndReturn
    \/ LoopDone
    \/ \E outcome \in {"written", "open_failed", "write_failed"} : SaveTimestamp(outcome)
    \/ RunSleep
    \/ Restart

Spec == Init /\ [][Next]_vars

\* The publisher driven by cycles whose fetch and save succeed.
NextPub ==
    \/ Tick
    \/ LoadTimestamp
    \/ FetchOk
    \/ PostFilter
    \/ WhileRetries
    \/ SendPostOk
    \/ SendPostFails
    \/ StampAndReturn
    \/ LoopDone
    \/ SaveTimestamp("written")
    \/ RunSleep

SpecPub == InitPub /\ [][NextPub]_vars

\* -------------------------------------------- a batch with a malformed row
ZipFilter == [included_zip_codes |-> {SampleZip}]

\* A row that lacks the ward and the zip code: r.get() gives None for both.
MalformedRow == [issued |-> StartTime, ward |-> None, zip_code |-> None]

\* The portal holds NRec rows issued since the stored watermark, the last
\* of them malformed; no filter, a ward allowlist or a zip allowlist.
InitMalformed ==
    /\ Started({ isoformat(StartTime - 1) },
               [i \in Ids |-> IF i = NRec THEN MalformedRow
                              ELSE [issued |-> StartTime, ward |-> "42",
                                    zip_code |-> SampleZip]],
               { [c EXCEPT !.filters = f] :
                   c \in { d \in PipelineConfigs : d.filters = NoFilters },
                   f \in {NoFilters, WardFilter, ZipFilter} })
    /\ probe = NoProbe

SpecMalformed == InitMalformed /\ [][NextPub]_vars

\* ------------------------------------------- cycles that follow one another
\* The configurations of the specification of consecutive cycles: throttling
\* on with every min_delay, no retry, no filter, the positive interval.
CarryConfigs ==
    { c \in Configs : /\ ~c.auto_retry /\ c.max_retries = 0 /\ c.retry_delay = 1
                      /\ c.throttling_enabled /\ c.metrics_enabled
                      /\ c.filters = NoFilters
                      /\ c.check_interval = CheckInterval }

InitCarry ==
    /\ Started({ isoformat(StartTime) }, [i \in Ids |-> Absent], CarryConfigs)
    /\ probe = NoProbe

\* Cycles whose fetch and save succeed, over a source that grows.
NextCarry ==
    \/ Tick
    \/ \E i \in Ids : Appear(i)
    \/ LoadTimestamp
    \/ FetchOk
    \/ PostFilter
    \/ WhileRetries
    \/ SendPostOk
    \/ SendPostFails
    \/ StampAndReturn
    \/ LoopDone
    \/ SaveTimestamp("written")
    \/ RunSleep

SpecCarry == InitCarry /\ [][NextCarry]_vars

\* ------------------------------------------------- the loop of run(), fair
\* The configurations of the loop's specification: the interval is positive,
\* zero or negative, the rest is fixed.
LoopConfigs ==
    { c \in Configs : /\ c.auto_retry /\ c.max_retries = 1 /\ c.retry_delay = 1
                      /\ c.throttling_enabled /\ c.min_delay = 1
                      /\ c.metrics_enabled /\ c.filters = NoFilters }

InitLoop ==
    /\ Started({ isoformat(StartTime) }, [i \in Ids |-> Absent], LoopConfigs)
    /\ probe = [op |-> "run", recovered |-> FALSE]

\* The steps of the single flow of control of run().
RunStep ==
    \/ LoadTimestamp
    \/ FetchOk
    \/ FetchRequestError
    \/ FetchRaise
    \/ PostFilter
    \/ WhileRetries
    \/ SendPostOk
    \/ SendPostFails
    \/ StampAndReturn
    \/ LoopDone
    \/ \E outcome \in {"written", "open_failed", "write_failed"} : SaveTimestamp(outcome)
    \/ RunSleep
    \/ RunSleepRaises
    \/ RunRecover

\* Time passes in the sleeps of the flow of control.
NextLoop ==
    \/ \E i \in Ids : Appear(i)
    \/ RunStep

\* The flow of control goes on: a call that was made returns, a sleep ends.
SpecLoop == InitLoop /\ [][NextLoop]_vars /\ WF_vars(RunStep)

\* ------------------------------------------- specifications of single calls
\* The variables of the cycle and of the publisher: untouched while a single
\* operation is examined.
pipelineVars == << source, cfg, pc, last_check, batch, idx, successful_posts,
                   processed, metrics, pubPc, retries, last_post_time, hist >>

\* A bot that has been constructed and is not running a cycle.
Parked(files) ==
    Started(files, [i \in Ids |-> Absent],
            { c \in PipelineConfigs : c.filters = NoFilters })

\* --------------------------------------------------- Restaurant.passes_filters
OtherLicense == "TAVERN"
OtherZip == "60614"

\* Restaurants as get_new_restaurants builds them: r.get('ward') and
\* r.get('zip_code') are None for a row that lacks the field.
FilterRestaurants ==
    [license_description : {SampleLicense, OtherLicense},
     zip_code            : {SampleZip, OtherZip, None},
     ward                : {"42", "1", None},
     application_date    : {StartTime}]

FilterKeys == {"excluded_license_types", "included_wards", "included_zip_codes"}

\* config.filters: the `filters` mapping of config.yaml; each rule set is a
\* list (empty or not) or is left out.
FilterDicts ==
    { [k \in D |-> f[k]] :
        D \in SUBSET FilterKeys,
        f \in [excluded_license_types : {{}, {OtherLicense}},
               included_wards         : {{}, {"42"}, {"42", "1"}},
               included_zip_codes     : {{}, {SampleZip}}] }

InitFilter ==
    /\ Parked({ isoformat(StartTime) })
    /\ probe \in [op : {"passes_filters"}, restaurant : FilterRestaurants,
                   filters : FilterDicts, returned : {FALSE}, ret : {FALSE}]

\* restaurant.passes_filters(self.config.filters)
CallPassesFilters ==
    /\ probe.op = "passes_filters" /\ ~probe.returned
    /\ probe' = [probe EXCEPT !.returned = TRUE,
                              !.ret = passes_filters(probe.restaurant, probe.filters)]
    /\ UNCHANGED << now, file, pipelineVars >>

NextFilter == CallPassesFilters

SpecFilter == InitFilter /\ [][NextFilter]_vars

\* ------------------------------------------------ Restaurant.format_announcement
\* bool(value) of an Optional[str] field: None and the empty text are falsy.
Truthy(v) == v # None /\ v # ""

\* A line of the announcement: the section it belongs to, its prefix (from
\* the template when emojis are on, empty otherwise) and the value printed.
Line(section, prefix, text) == [section |-> section, prefix |-> prefix, text |-> text]

\* A renderer that prints the ward section whenever its toggle is on.
format_announcement_unguarded(r, config) ==
    LET features == config.features
        Prefix(key) == IF features.use_emojis THEN key ELSE ""
        parts1 == << Line("header", "", "header"),
                     Line("name", Prefix("name_prefix"), r.name),
                     Line("address", Prefix("address_prefix"), << r.address, r.zip_code >>) >>
        parts2 == IF features.include_business_activity /\ Truthy(r.business_activity)
                    THEN Append(parts1, Line("business_activity", Prefix("activity_prefix"),
                                             r.business_activity))
                    ELSE parts1
        parts3 == IF features.include_square_footage /\ Truthy(r.square_footage)
                    THEN Append(parts2, Line("square_footage",
                                             Prefix("square_footage_prefix"),
                                             r.square_footage))
                    ELSE parts2
        parts4 == IF features.include_ward
                    THEN Append(parts3, Line("ward", Prefix("ward_prefix"), r.ward))
                    ELSE parts3
    IN  IF features.add_hashtags /\ config.hashtags # <<>>
          THEN parts4 \o << Line("blank", "", ""), Line("hashtags", "#", config.hashtags) >>
          ELSE parts4

\* restaurant.py:18-64  format_announcement: the lines of the text, in order.
\* "\n".join(parts), then a blank line and the hashtag line.
format_announcement(r, config) ==
    LET features == config.features
        Prefix(key) == IF features.use_emojis THEN key ELSE ""
        parts1 == << Line("header", "", "header"),
                     Line("name", Prefix("name_prefix"), r.name),
                     Line("address", Prefix("address_prefix"), << r.address, r.zip_code >>) >>
        parts2 == IF features.include_business_activity /\ Truthy(r.business_activity)
                    THEN Append(parts1, Line("business_activity", Prefix("activity_prefix"),
                                             r.business_activity))
                    ELSE parts1
        parts3 == IF features.include_square_footage /\ Truthy(r.square_footage)
                    THEN Append(parts2, Line("square_footage",
                                             Prefix("square_footage_prefix"),
                                             r.square_footage))
                    ELSE parts2
        parts4 == IF features.include_ward /\ Truthy(r.ward)
                    THEN Append(parts3, Line("ward", Prefix("ward_prefix"), r.ward))
                    ELSE parts3
    IN  IF features.add_hashtags /\ config.hashtags # <<>>
          THEN parts4 \o << Line("blank", "", ""), Line("hashtags", "#", config.hashtags) >>
          ELSE parts4

\* Restaurants with each optional field holding a value, empty or None.
RenderRestaurants ==
    [name              : {"Sample Restaurant"},
     address           : {"123 N State St"},
     zip_code          : {SampleZip},
     business_activity : {"Retail Sales of Food", "", None},
     square_footage    : {"2500", "", None},
     ward              : {"42", "", None}]

\* config.features (config.py:8-17) and config.hashtags (config.py:121-124).
RenderConfigs ==
    [features : [include_ward : BOOLEAN, include_square_footage : BOOLEAN,
                 include_business_activity : BOOLEAN, use_emojis : BOOLEAN,
                 add_hashtags : BOOLEAN],
     hashtags : { <<>>, << "ChicagoEats", "NewRestaurant" >> }]

InitRender ==
    /\ Parked({ isoformat(StartTime) })
    /\ probe \in [op : {"format_announcement"}, restaurant : RenderRestaurants,
                   config : RenderConfigs, returned : {FALSE}, ret : { <<>> }]

\* bluesky_service.py:86  restaurant.format_announcement(self.config)
CallFormatAnnouncement ==
    /\ probe.op = "format_announcement" /\ ~probe.returned
    /\ probe' = [probe EXCEPT !.returned = TRUE,
                              !.ret = format_announcement(probe.restaurant, probe.config)]
    /\ UNCHANGED << now, file, pipelineVars >>

NextRender == CallFormatAnnouncement

SpecRender == InitRender /\ [][NextRender]_vars

\* ----------------------------------------------------------- TimestampManager
\* A file whose text is no ISO timestamp.
Garbage == << 0, 0, 0 >>
Timestamps == 0..MaxTime

\* What a process that dies inside save_timestamp(t) may leave in the file:
\* the old content (it died before open), or, the file having been opened
\* with "w" and so truncated, the leading parts of the text that had reached
\* the file.
save_timestamp_crashed(f, t) ==
    { f } \cup { SubSeq(isoformat(t), 1, k) : k \in 0..Len(isoformat(t)) }

\* The last write to the store (save_timestamp that returned, with its
\* outcome, or one that the process died in), and the last load.
NoStoreCall == [op |-> "init", ts |-> -1, prev |-> <<>>, outcome |-> "none",
                ret |-> -1, at |-> -1]

\* The file was created by TimestampManager.__init__ or left by an earlier
\* run, readable or not.
InitStore ==
    /\ Parked({ isoformat(t) : t \in (StartTime - DayLen)..StartTime }
                \cup { <<>>, Garbage })
    /\ probe = NoStoreCall

\* time_utils.py:39-50  save_timestamp(ts) returns.
StoreSave(ts, outcome) ==
    /\ file' = save_timestamp(file, ts, outcome)
    /\ probe' = [op |-> "save", ts |-> ts, prev |-> file, outcome |-> outcome,
                 ret |-> -1, at |-> -1]
    /\ UNCHANGED << now, pipelineVars >>

\* time_utils.py:46-48  the process dies inside save_timestamp(ts); the next
\* process finds what was left.
StoreCrash(ts) ==
    /\ file' \in save_timestamp_crashed(file, ts)
    /\ probe' = [op |-> "crash", ts |-> ts, prev |-> file, outcome |-> "crashed",
                 ret |-> -1, at |-> -1]
    /\ UNCHANGED << now, pipelineVars >>

\* time_utils.py:23-37  load_timestamp()
StoreLoad ==
    /\ probe' = [probe EXCEPT !.op = "load",
                              !.ret = load_timestamp(file, now),
                              !.at = now]
    /\ UNCHANGED << now, file, pipelineVars >>

NextStore ==
    \/ Tick
    \/ \E ts \in Timestamps, outcome \in {"written", "open_failed", "write_failed"} :
          StoreSave(ts, outcome)
    \/ \E ts \in Timestamps : StoreCrash(ts)
    \/ StoreLoad

SpecStore == InitStore /\ [][NextStore]_vars

\* ------------------------------------------ a bot that finds a corrupt file
\* The timestamp file is left by an earlier run and holds nothing readable.
InitHeal ==
    /\ Started({ <<>>, Garbage }, [i \in Ids |-> Absent], PipelineConfigs)
    /\ probe = NoProbe

SpecHeal == InitHeal /\ [][Next]_vars


\* ================================================================ claims
CycleOver == pc = "sleep"
FetchFailed == hist.cycle.fetchOutcome \in {"request_error", "raised"}
Passes(i) == passes_filters(Restaurant(source[i]), cfg.filters)

\* C1: when the fetch of a cycle that loaded a stored watermark fails (a
\* network or HTTP error, or a parse error), process_new_restaurants returns 0
\* and the timestamp file is what it was when the cycle loaded it.
C1_FetchFailureKeepsWatermark ==
    (CycleOver /\ FetchFailed /\ fromisoformat(hist.cycle.fileAtLoad) # -1) =>
        (processed = 0 /\ file = hist.cycle.fileAtLoad)

\* C2: no record is successfully published more than once: a record published
\* by a cycle that completed and wrote the watermark is not published again by
\* a later cycle.
C2_PublishedAtMostOnce ==
    hist.cycle.published \cap hist.done = {}

\* C3: no announcement is lost: after a cycle whose fetch succeeded and which
\* wrote the watermark, a record that was issued after the watermark, passes
\* the filters and has never been handed to the publisher is still inside the
\* window of the next fetch.
C3_NoRecordLost ==
    (CycleOver /\ hist.cycle.fetchOutcome = "ok" /\ hist.cycle.saved = "written") =>
        \A i \in Ids :
            (source[i] # Absent /\ hist.due[i] /\ Passes(i) /\ ~hist.handed[i]) =>
                i \in Matching(source, load_timestamp(file, now))

\* C4: the timestamp file changes only in the save at the end of the cycle,
\* when post_restaurant has returned for every fetched record; a cycle that an
\* error left before that point ends with the file it loaded.
C4_WatermarkWrittenLast ==
    [][ /\ (file' # file) =>
             (pc = "save" /\ hist.cycle.attempted = 1..Len(batch))
        /\ (pc' = "sleep" /\ hist'.cycle.fetchOutcome = "raised") =>
             (file' = hist'.cycle.fileAtLoad) ]_vars

\* A cycle fetched two records, attempted both (one of them failed after its
\* retries) and then moved the watermark.
C4_Witness ==
    /\ CycleOver /\ hist.cycle.saved = "written"
    /\ Len(batch) = 2 /\ hist.cycle.attempted = {1, 2}
    /\ hist.cycle.nExhausted >= 1
    /\ file # hist.cycle.fileAtLoad

C6_OutcomeCounts ==
    (pc = "save" /\ cfg.metrics_enabled) =>
        /\ hist.cycle.attempted = 1..Len(batch)
        /\ metrics.posts_failed = hist.cycle.nExhausted
        /\ metrics.restaurants_found =
             metrics.posts_succeeded + metrics.posts_failed + hist.cycle.nFiltered

CallOver == hist.call.result # "none"

\* C7: with auto-retry on, a call of post_restaurant makes at most
\* max_retries + 1 pushes, sleeps retry_delay once between two consecutive
\* pushes and at no other time, returns True with its first successful push,
\* and returns False for a record that passed the filters only after
\* max_retries + 1 failed pushes.
C7_BoundedRetry ==
    cfg.auto_retry =>
        /\ hist.call.pushes <= cfg.max_retries + 1
        /\ hist.call.okPushes <= 1
        /\ hist.call.retrySlept = hist.call.retrySleeps * cfg.retry_delay
        /\ hist.call.okPushes = 1 => hist.call.retrySleeps = hist.call.pushes - 1
        /\ hist.call.okPushes = 0 =>
             hist.call.retrySleeps = (IF hist.call.pushes > cfg.max_retries
                                        THEN cfg.max_retries ELSE hist.call.pushes)
        /\ (CallOver /\ hist.call.result = "True") => hist.call.okPushes = 1
        /\ (CallOver /\ hist.call.result = "False" /\ ~hist.call.filtered) =>
             (hist.call.okPushes = 0 /\ hist.call.pushes = cfg.max_retries + 1)
        /\ (hist.call.okPushes = 1 /\ ~CallOver) => pubPc = "sent"

\* A call returned False after a retry used up the budget.
C7_Witness ==
    /\ cfg.auto_retry /\ cfg.max_retries >= 1
    /\ CallOver /\ hist.call.result = "False" /\ ~hist.call.filtered
    /\ hist.call.pushes = cfg.max_retries + 1
    /\ hist.call.retrySleeps = cfg.max_retries

\* C8: with auto-retry off, a call of post_restaurant for a record that
\* passes the filters makes exactly one push, never sleeps retry_delay, and
\* returns False right after that push when it fails, whatever max_retries.
C8_NoRetryWhenDisabled ==
    ~cfg.auto_retry =>
        /\ hist.call.pushes <= 1
        /\ hist.call.retrySleeps = 0 /\ hist.call.retrySlept = 0
        /\ (CallOver /\ ~hist.call.filtered) => hist.call.pushes = 1
        /\ (hist.call.pushes = 1 /\ hist.call.okPushes = 0) =>
             (CallOver /\ hist.call.result = "False")

\* With a budget of one retry and auto-retry off, a call returned False after
\* its only push.
C8_Witness ==
    /\ ~cfg.auto_retry /\ cfg.max_retries >= 1
    /\ CallOver /\ hist.call.result = "False" /\ ~hist.call.filtered
    /\ hist.call.pushes = 1

PushStep == hist'.call.pushes = hist.call.pushes + 1
PushOkStep == PushStep /\ hist'.call.okPushes = hist.call.okPushes + 1

\* C9: with throttling on, a successful push is made at least min_delay
\* after the previous successful push of the same publisher.
C9_SuccessSpacing ==
    [][ (cfg.throttling_enabled /\ PushOkStep /\ hist.push.lastOkAt # -1) =>
            now - hist.push.lastOkAt >= cfg.min_delay ]_vars

\* A push that had to wait for the rate limit, and so followed an earlier
\* successful push, succeeded.
C9_Witness ==
    /\ cfg.throttling_enabled
    /\ pubPc = "sent" /\ hist.call.rateSlept > 0
    /\ hist.push.lastOkAt = hist.push.lastPushAt

\* C10: with throttling on (and a retry_delay that is no shorter than
\* min_delay), any push is made at least min_delay after the previous push of
\* the same publisher, failed or successful.
C10_AttemptSpacing ==
    [][ (/\ cfg.throttling_enabled /\ cfg.retry_delay >= cfg.min_delay
         /\ PushStep /\ hist.push.lastPushAt # -1) =>
            now - hist.push.lastPushAt >= cfg.min_delay ]_vars

\* C11: a record that fails the filters never reaches the publisher: no push
\* call is made for it (in this cycle or any other), the publisher's loop is
\* never entered for it, its call sleeps neither for the rate limit nor for a
\* retry and returns False, it is not among the published records, and a
\* cycle whose every fetched record was rejected returns 0.
C11_FilteredNeverPublished ==
    /\ \A i \in Ids :
          (source[i] # Absent /\ ~Passes(i)) =>
              (~hist.handed[i] /\ i \notin hist.cycle.published)
    /\ pubPc # "idle" => Passes(batch[idx])
    /\ hist.call.filtered =>
          /\ hist.call.pushes = 0
          /\ hist.call.rateSlept = 0
          /\ hist.call.retrySleeps = 0
          /\ hist.call.result = "False"
    /\ hist.cycle.nFiltered = Len(batch) => successful_posts = 0
    /\ (CycleOver /\ hist.cycle.saved # "none"
           /\ hist.cycle.nFiltered = Len(batch)) => processed = 0

\* A cycle whose only fetched record was rejected by the ward allowlist has
\* ended, with nothing pushed and 0 returned.
C11_Witness ==
    /\ CycleOver /\ hist.cycle.saved = "written"
    /\ Len(batch) = 1 /\ ~Passes(batch[1])
    /\ hist.cycle.attempted = {1} /\ hist.cycle.nFiltered = 1
    /\ hist.call.filtered /\ hist.call.pushes = 0
    /\ processed = 0

\* C12: passes_filters returns True exactly when the license type is not in a
\* non-empty exclusion list, and the ward is present and in the ward
\* allowlist when that list is non-empty, and the zip code is in the zip
\* allowlist when that list is non-empty; a rule set that is empty or left
\* out of the configuration constrains nothing.
Constrains(filters, key) == key \in DOMAIN filters /\ filters[key] # {}
C12_FilterSemantics ==
    (probe.op = "passes_filters" /\ probe.returned) =>
        LET r == probe.restaurant
            f == probe.filters
        IN  probe.ret <=>
              /\ Constrains(f, "excluded_license_types") =>
                    r.license_description \notin f.excluded_license_types
              /\ Constrains(f, "included_wards") =>
                    (r.ward # None /\ r.ward \in f.included_wards)
              /\ Constrains(f, "included_zip_codes") =>
                    r.zip_code \in f.included_zip_codes

\* A record without a ward was rejected by a ward allowlist alone: the other
\* two rule sets are left out or empty.
C12_Witness ==
    /\ probe.op = "passes_filters" /\ probe.returned /\ ~probe.ret
    /\ probe.restaurant.ward = None
    /\ Constrains(probe.filters, "included_wards")
    /\ "excluded_license_types" \notin DOMAIN probe.filters
    /\ ~Constrains(probe.filters, "included_zip_codes")

\* C13: every record returned by the fetch made for a stored watermark
\* last_check was issued strictly after last_check: a record issued at or
\* before the watermark is not in the batch.
C13_FetchStrictlyNewer ==
    (/\ hist.cycle.fetchOutcome = "ok" /\ pc \in {"post", "save", "sleep"}
     /\ fromisoformat(hist.cycle.fileAtLoad) # -1) =>
        \A k \in 1..Len(batch) : source[batch[k]].issued > last_check

\* C14: a crash at any point inside save_timestamp leaves the stored value
\* the previous one, the new one, or a content that load_timestamp rejects
\* as unreadable: a partially written file is never accepted as a timestamp
\* that is neither.
C14_CrashLeavesOldNewOrUnreadable ==
    probe.outcome = "crashed" =>
        \/ fromisoformat(file) = -1
        \/ fromisoformat(file) = probe.ts
        \/ fromisoformat(file) = fromisoformat(probe.prev)

\* C15: load_timestamp never raises: it returns a timestamp, which is the
\* stored one when the file holds the text of a saved timestamp, and the
\* current time when the file is missing, empty or holds no timestamp.
C15_LoadNeverRaises ==
    probe.op = "load" =>
        /\ probe.ret \in Timestamps
        /\ \A t \in Timestamps : file = isoformat(t) => probe.ret = t
        /\ file \in { <<>>, Garbage } => probe.ret = probe.at
        /\ probe.ret # probe.at => probe.ret = fromisoformat(file)

\* A load of a file that holds no timestamp returned the current time, which
\* is not what the last save was asked to write.
C15_Witness ==
    /\ probe.op = "load" /\ file = Garbage
    /\ probe.ret = probe.at /\ probe.at = now /\ now > StartTime

\* C16: after save_timestamp(ts) completed without error, load_timestamp
\* returns exactly ts, whatever the file held before and whatever the clock
\* reads at the load.
C16_RoundTrip ==
    (probe.op = "load" /\ probe.outcome = "written") => probe.ret = probe.ts

\* A timestamp that is not midnight and not the current time was saved over
\* another value and loaded back.
C16_Witness ==
    /\ probe.op = "load" /\ probe.outcome = "written"
    /\ probe.ts % DayLen # 0 /\ probe.ts # probe.at
    /\ fromisoformat(probe.prev) \notin { -1, probe.ts }
    /\ probe.ret = probe.ts

\* The step the flow of control is at is a sleep that ends after MaxTime,
\* where the clock of the model stops.
ClockOut ==
    \/ pc = "sleep" /\ cfg.check_interval >= 0 /\ now + cfg.check_interval > MaxTime
    \/ pc = "recover" /\ now + RecoverySleep > MaxTime
    \/ /\ pc = "post" /\ pubPc = "while" /\ retries <= cfg.max_retries
       /\ enforce_rate_limit(now) > MaxTime

\* C17: the loop of run() never ends because of what a cycle did: after a
\* cycle that returned (fetch error, failed publishes, failed write) it
\* sleeps the configured interval, after an error that reached run() it
\* sleeps the recovery interval, and starts another cycle; cycles start
\* again and again, until the clock of the model stops inside a sleep.
WaitThenCycle ==
    /\ (pc = "sleep" /\ pc' # "sleep") =>
          IF cfg.check_interval >= 0
            THEN pc' = "load" /\ now' = now + cfg.check_interval
            ELSE pc' = "recover" /\ now' = now
    /\ (pc = "recover" /\ pc' # "recover") =>
          (pc' = "load" /\ now' = now + RecoverySleep)
    /\ pc' \in {"load", "fetch", "post", "save", "sleep", "recover"}
C17_CyclesForever ==
    /\ [][WaitThenCycle]_vars
    /\ []<><<LoadTimestamp>>_vars \/ <>[]ClockOut

\* A cycle has started after an error reached run() and the recovery sleep.
C17_Witness ==
    /\ probe.op = "run" /\ probe.recovered
    /\ pc = "fetch" /\ cfg.check_interval < 0

\* C18: one malformed record does not abort the cycle: when the fetched
\* batch holds a record without ward and zip code, the cycle goes through
\* the whole batch; the malformed record is rejected by a ward or zip
\* allowlist, or goes to the publisher when there is none, and every other
\* record is filtered and handed to the publisher in the same cycle.
Malformed(i) == source[i].ward = None \/ source[i].zip_code = None
C18_MalformedDoesNotAbort ==
    (hist.cycle.fetchOutcome = "ok" /\ pc \in {"save", "sleep"}) =>
        /\ hist.cycle.attempted = 1..Len(batch)
        /\ \A k \in 1..Len(batch) :
              LET i == batch[k]
              IN  hist.handed[i] <=>
                    ~(Malformed(i) /\ (Constrains(cfg.filters, "included_wards")
                                        \/ Constrains(cfg.filters, "included_zip_codes")))

\* The malformed record came first in the batch and was rejected by the zip
\* allowlist; the record after it was published and the cycle completed.
C18_Witness ==
    /\ CycleOver /\ hist.cycle.saved = "written" /\ hist.cycle.fetchOutcome = "ok"
    /\ Len(batch) = NRec /\ Malformed(batch[1]) /\ ~Malformed(batch[NRec])
    /\ cfg.filters = ZipFilter
    /\ ~hist.handed[batch[1]]
    /\ batch[NRec] \in hist.cycle.published

\* C19: a failed write of the watermark does not abort the cycle: the cycle
\* returns its count of published records, the timestamp file holds what it
\* held when the cycle loaded it, and the loop goes to its normal wait.
C19_WriteFailureKeepsWatermark ==
    (CycleOver /\ hist.cycle.saved \in {"open_failed", "write_failed"}) =>
        /\ processed = Cardinality(hist.cycle.published)
        /\ file = hist.cycle.fileAtLoad

\* C20: format_announcement returns a text whatever optional fields are
\* absent; the section of each optional field (business activity, square
\* footage, ward) is in it exactly when its toggle is on and the record holds
\* a value for the field (None and the empty text are no value), and prints
\* that value; the sections are in the order header, name, address, activity,
\* square footage, ward; the hashtag line, after a blank line, ends the text
\* exactly when hashtags are on and the hashtag list is not empty.
HasValue(v) == v \notin { None, "" }
ToggleOf(features, section) ==
    IF section = "business_activity" THEN features.include_business_activity
    ELSE IF section = "square_footage" THEN features.include_square_footage
    ELSE features.include_ward
C20_AnnouncementSections ==
    (probe.op = "format_announcement" /\ probe.returned) =>
        LET r == probe.restaurant
            features == probe.config.features
            out == probe.ret
            Shown(section) == ToggleOf(features, section) /\ HasValue(r[section])
            tail == IF features.add_hashtags /\ Len(probe.config.hashtags) > 0
                      THEN << "blank", "hashtags" >> ELSE <<>>
        IN  /\ [k \in 1..Len(out) |-> out[k].section] =
                  << "header", "name", "address" >>
                  \o SelectSeq(<< "business_activity", "square_footage", "ward" >>, Shown)
                  \o tail
            /\ \A k \in 1..Len(out) :
                  /\ out[k].section \in {"business_activity", "square_footage", "ward"} =>
                        out[k].text = r[out[k].section]
                  /\ out[k].section = "hashtags" => out[k].text = probe.config.hashtags

\* A record without business activity and ward was rendered with every
\* toggle on: the square footage is its only optional section, and the
\* hashtag line ends the text.
C20_Witness ==
    /\ probe.op = "format_announcement" /\ probe.returned
    /\ probe.restaurant.business_activity = None /\ probe.restaurant.ward = None
    /\ probe.restaurant.square_footage = "2500"
    /\ probe.config.features.include_business_activity
    /\ probe.config.features.include_ward
    /\ probe.config.features.include_square_footage
    /\ probe.config.features.add_hashtags /\ probe.config.hashtags # <<>>
    /\ Len(probe.ret) = 6 /\ probe.ret[4].section = "square_footage"
    /\ probe.ret[6].section = "hashtags"

\* The publisher is about to make the first push of the cycle.
FirstPushOfCycle ==
    /\ pc = "post" /\ pubPc = "send"
    /\ hist.call.pushes = 0
    /\ hist.cycle.published = {} /\ hist.cycle.nExhausted = 0

\* C21: nothing but the stored watermark is carried from one iteration of
\* run() to the next: what a cycle does depends on the watermark, the
\* configuration and the collaborators' responses only.  So the publisher
\* blocks before the first push of a cycle as long as it does in the first
\* cycle of a bot that has just started, which is not at all, whatever the
\* cycles before did.
C21_NoCarriedState ==
    FirstPushOfCycle => hist.call.rateSlept = 0

\* C22: cycles are strictly serialized: a cycle starts only after the one
\* before it has returned or raised (or in a process that has just started),
\* with the publisher idle; the watermark is read in the first step of the
\* cycle and at no other, and the timestamp file changes only in the step
\* that ends the cycle, so at most once in a cycle.
Restarting == hist'.restarts # hist.restarts
Serialized ==
    /\ (pc' = "load" /\ pc # "load") => (pc = "sleep" \/ Restarting)
    /\ (pc = "load" /\ pc' # "load") =>
          /\ pc' = "fetch" /\ pubPc = "idle"
          /\ last_check' = load_timestamp(file, now)
    /\ last_check' # last_check => (pc = "load" \/ Restarting)
    /\ file' # file => (pc = "save" /\ pc' = "sleep")
    /\ pc \in {"load", "fetch", "save", "sleep"} => pubPc = "idle"
C22_CyclesSerialized == [][Serialized]_vars

\* A cycle is publishing after an earlier cycle of the same process
\* published, wrote the watermark and returned.
C22_Witness ==
    /\ pc = "post" /\ pubPc = "send"
    /\ hist.done # {} /\ hist.restarts = 0
    /\ fromisoformat(file) = last_check

\* C23: a corrupt watermark heals: when the stored watermark is unreadable
\* at the start of a cycle and the cycle ends with a successful write, the
\* file holds the time of that write; and from then on the file stays
\* readable, so that every later load returns the stored value and not the
\* fallback.  (The file is unreadable at the start, so it is readable only
\* after such a cycle.)
Healing ==
    /\ (pc = "save" /\ pc' = "sleep" /\ hist'.cycle.saved = "written") =>
          fromisoformat(file') = now
    /\ fromisoformat(file) # -1 => fromisoformat(file') # -1
    /\ (pc = "load" /\ pc' = "fetch" /\ fromisoformat(file) # -1) =>
          last_check' = fromisoformat(file)
C23_SelfHealing == [][Healing]_vars

\* C24: with metrics enabled, every record of the fetched batch that the
\* loop has gone through has incremented exactly one of posts_succeeded (it
\* was published) and posts_failed (it was filtered out, or its publishing
\* failed), so that when the loop is over restaurants_found has grown by the
\* sum of the two; a cycle aborted by an error adds one further posts_failed.
C24_MetricsAccounting ==
    cfg.metrics_enabled =>
        /\ (pc \in {"post", "save", "sleep"} /\ pubPc = "idle"
               /\ hist.cycle.fetchOutcome \in {"ok", "request_error"}) =>
              /\ metrics.restaurants_found = Len(batch)
              /\ metrics.posts_succeeded = Cardinality(hist.cycle.published)
              /\ metrics.posts_failed = hist.cycle.nFiltered + hist.cycle.nExhausted
              /\ metrics.posts_succeeded + metrics.posts_failed =
                    Cardinality(hist.cycle.attempted)
        /\ (pc \in {"save", "sleep"}
               /\ hist.cycle.fetchOutcome \in {"ok", "request_error"}) =>
              metrics.restaurants_found =
                  metrics.posts_succeeded + metrics.posts_failed
        /\ (CycleOver /\ hist.cycle.fetchOutcome = "raised") =>
              /\ metrics.restaurants_found = 0 /\ metrics.posts_succeeded = 0
              /\ metrics.posts_failed = 1

\* A cycle that fetched two records has ended: one was filtered out and
\* counted as failed, the other was published.
C24_Witness ==
    /\ CycleOver /\ cfg.metrics_enabled /\ hist.cycle.saved = "written"
    /\ Len(batch) = 2 /\ hist.cycle.nFiltered = 1 /\ hist.cycle.nExhausted = 0
    /\ metrics = [restaurants_found |-> 2, posts_succeeded |-> 1, posts_failed |-> 1]

====
